---- MODULE Spec2Model ----
(***************************************************************************)
(* Tic-Tac-Toe (src/tic_tac_toe_frontend/src/App.js): the outcome          *)
(* evaluator (calculateWinner, isBoardFull), the move engine               *)
(* (getRandomMove, getBestMoveEasy, getBestMoveHard) and the App           *)
(* component's session state with its handlers and effects.                *)
(*                                                                         *)
(* A board is a function 0..8 -> {Null, "X", "O"}; cell indices are the    *)
(* source's 0-based indices.  JavaScript null is Null; a move that is      *)
(* null is NullMove and a move that is undefined (the `move` field of a    *)
(* minimax leaf result) is UndefinedMove.                                  *)
(***************************************************************************)
EXTENDS Integers, Sequences, FiniteSets, TLC

VARIABLES
  gameMode,     \* useState(GAME_MODES.PVC)
  board,        \* useState(EMPTY_BOARD)
  xIsNext,      \* useState(true)
  winningInfo,  \* useState(null): {winner, line} or NoWin
  isTie,        \* useState(false)
  scores,       \* useState({X: 0, O: 0, ties: 0})
  difficulty,   \* useState(DIFFICULTY_LEVELS.EASY)
  timer,        \* the pending setTimeout of the computer-move effect and its closure
  aiMark,       \* engine call under analysis: the aiMark argument
  ret,          \* engine call under analysis: the value returned
  pc            \* position of the analysed call / of the simulated game

vars == <<gameMode, board, xIsNext, winningInfo, isTie, scores, difficulty,
          timer, aiMark, ret, pc>>

----------------------------------------------------------------------------
(* Constants of the program *)

Null == "null"
PLAYER_X == "X"
PLAYER_O == "O"
PVP == "Player vs Player"
PVC == "Player vs Computer"
GAME_MODES == {PVP, PVC}
EASY == "Easy"
HARD == "Hard"
DIFFICULTY_LEVELS == {EASY, HARD}

Cells == 0..8
Marks == {PLAYER_X, PLAYER_O}
EMPTY_BOARD == [i \in Cells |-> Null]
Boards == [Cells -> {Null, PLAYER_X, PLAYER_O}]

\* null / undefined where the source yields a move
NullMove == -1
UndefinedMove == -2
\* Infinity of the minimax accumulator: above every score in {-1, 0, 1}
Infinity == 2

Other(mark) == IF mark = PLAYER_X THEN PLAYER_O ELSE PLAYER_X
Empties(b) == {i \in Cells : b[i] = Null}
Count(b, mark) == Cardinality({i \in Cells : b[i] = mark})

----------------------------------------------------------------------------
(* Outcome evaluator *)

lines == << <<0, 1, 2>>, <<3, 4, 5>>, <<6, 7, 8>>,
            <<0, 3, 6>>, <<1, 4, 7>>, <<2, 5, 8>>,
            <<0, 4, 8>>, <<2, 4, 6>> >>

\* the null result of calculateWinner
NoWin == [winner |-> Null, line |-> <<>>]

\* the test of the loop body: squares[a] && squares[a] === squares[b] && squares[a] === squares[c]
LineComplete(squares, line) ==
  /\ squares[line[1]] # Null
  /\ squares[line[1]] = squares[line[2]]
  /\ squares[line[1]] = squares[line[3]]

\* variant: the loop keeps the last complete line instead of returning at the first
RECURSIVE ScanLinesLast(_, _)
ScanLinesLast(squares, k) ==
  IF k > Len(lines) THEN NoWin
  ELSE LET rest == ScanLinesLast(squares, k + 1) IN
       IF rest # NoWin THEN rest
       ELSE IF LineComplete(squares, lines[k])
            THEN [winner |-> squares[lines[k][1]], line |-> lines[k]]
            ELSE NoWin

\* the for-of loop over lines, from the k-th line on
RECURSIVE ScanLines(_, _)
ScanLines(squares, k) ==
  IF k > Len(lines) THEN NoWin
  ELSE IF LineComplete(squares, lines[k])
       THEN [winner |-> squares[lines[k][1]], line |-> lines[k]]
       ELSE ScanLines(squares, k + 1)

calculateWinner(squares) == ScanLines(squares, 1)

\* variant: the test of `every` inverted (val === null)
isBoardFullAllNull(squares) == \A i \in Cells : squares[i] = Null

\* variant: `some` for `every`
isBoardFullSome(squares) == \E i \in Cells : squares[i] # Null

isBoardFull(squares) == \A i \in Cells : squares[i] # Null

----------------------------------------------------------------------------
(* Move engine *)

\* board.map((val, idx) => (val ? null : idx)).filter(idx => idx !== null), from cell i on
RECURSIVE AvailableFrom(_, _)
AvailableFrom(b, i) ==
  IF i > 8 THEN <<>>
  ELSE IF b[i] = Null THEN <<i>> \o AvailableFrom(b, i + 1)
       ELSE AvailableFrom(b, i + 1)

available(b) == AvailableFrom(b, 0)

\* the values Math.floor(Math.random() * available.length) can take (0 when the
\* list is empty and the draw is never made)
RandIdxs(b) == IF Empties(b) = {} THEN {0} ELSE 0..(Cardinality(Empties(b)) - 1)

\* variant: the random index is taken over all nine cells, not over the
\* empty ones
getRandomMoveAnyCell(b, randIdx) == randIdx

getRandomMove(b, randIdx) ==
  IF Len(available(b)) = 0 THEN NullMove
  ELSE available(b)[randIdx + 1]

\* One look-ahead loop of getBestMoveEasy, from cell i on: the first empty cell
\* where placing `mark` on a copy makes calculateWinner report `mark`; NullMove
\* when the loop falls through.
RECURSIVE FirstCompleting(_, _, _)
FirstCompleting(b, mark, i) ==
  IF i > 8 THEN NullMove
  ELSE IF b[i] = Null /\ calculateWinner([b EXCEPT ![i] = mark]).winner = mark
       THEN i
       ELSE FirstCompleting(b, mark, i + 1)

\* variant: the block loop runs before the win loop
getBestMoveEasyBlockFirst(b, ai, human, randIdx) ==
  IF FirstCompleting(b, human, 0) # NullMove THEN FirstCompleting(b, human, 0)
  ELSE IF FirstCompleting(b, ai, 0) # NullMove THEN FirstCompleting(b, ai, 0)
  ELSE IF b[4] = Null THEN 4
  ELSE getRandomMove(b, randIdx)

\* variant: the center is taken before the block loop runs
getBestMoveEasyCenterBeforeBlock(b, ai, human, randIdx) ==
  IF FirstCompleting(b, ai, 0) # NullMove THEN FirstCompleting(b, ai, 0)
  ELSE IF b[4] = Null THEN 4
  ELSE IF FirstCompleting(b, human, 0) # NullMove THEN FirstCompleting(b, human, 0)
  ELSE getRandomMove(b, randIdx)

getBestMoveEasy(b, ai, human, randIdx) ==
  IF FirstCompleting(b, ai, 0) # NullMove THEN FirstCompleting(b, ai, 0)
  ELSE IF FirstCompleting(b, human, 0) # NullMove THEN FirstCompleting(b, human, 0)
  ELSE IF b[4] = Null THEN 4
  ELSE getRandomMove(b, randIdx)

\* variant: the two comparisons swapped, so the search keeps the worst score
BetterScoreInverted(isMaximizing, score, bestScore) ==
  IF isMaximizing THEN score < bestScore ELSE score > bestScore

\* variant: >= and <= for > and <, so the last of several best moves is kept
BetterScoreOrEqual(isMaximizing, score, bestScore) ==
  IF isMaximizing THEN score >= bestScore ELSE score <= bestScore

\* result.score > bestScore (maximizing) / result.score < bestScore (minimizing)
BetterScore(isMaximizing, score, bestScore) ==
  IF isMaximizing THEN score > bestScore ELSE score < bestScore

\* what the loop of minimax records for a cell it skips (an occupied cell)
Skipped == 9

\* The for-loop of minimax from cell i on, with the accumulators bestScore and
\* bestMove; results[i + 1] is the score the recursive call returned for cell
\* i, or Skipped when cell i is occupied and the loop body does not run.
RECURSIVE minimaxLoop(_, _, _, _, _)
minimaxLoop(results, isMaximizing, i, bestScore, bestMove) ==
  CASE i > 8 ->
         [score |-> bestScore, move |-> bestMove]
    [] i <= 8 /\ results[i + 1] = Skipped ->
         minimaxLoop(results, isMaximizing, i + 1, bestScore, bestMove)
    [] i <= 8 /\ results[i + 1] # Skipped
              /\ BetterScore(isMaximizing, results[i + 1], bestScore) ->
         minimaxLoop(results, isMaximizing, i + 1, results[i + 1], i)
    [] i <= 8 /\ results[i + 1] # Skipped
              /\ ~BetterScore(isMaximizing, results[i + 1], bestScore) ->
         minimaxLoop(results, isMaximizing, i + 1, bestScore, bestMove)

\* minimax(newBoard, isMaximizing) of getBestMoveHard.  childScore is the body
\* of its loop for cell i: if (!newBoard[i]) { newBoard[i] = mark;
\* result = minimax(newBoard, !isMaximizing); newBoard[i] = null; ... }.  The
\* placement is undone before the next cell is tried, so the recursive call of
\* every cell starts from newBoard; the results of the nine cells are collected
\* (once: results is bound to the tuple of their values) and minimaxLoop
\* compares them in ascending cell order.
RECURSIVE minimax(_, _, _, _), childScore(_, _, _, _, _)
minimax(newBoard, isMaximizing, ai, human) ==
  LET winnerInfo == calculateWinner(newBoard) IN
  CASE winnerInfo.winner = ai -> [score |-> 1, move |-> UndefinedMove]
    [] winnerInfo.winner # ai /\ winnerInfo.winner = human ->
         [score |-> -1, move |-> UndefinedMove]
    [] winnerInfo.winner \notin {ai, human} /\ isBoardFull(newBoard) ->
         [score |-> 0, move |-> UndefinedMove]
    [] winnerInfo.winner \notin {ai, human} /\ ~isBoardFull(newBoard) ->
         CHOOSE out \in
           { minimaxLoop(results, isMaximizing, 0,
                         IF isMaximizing THEN -Infinity ELSE Infinity, NullMove) :
               results \in {<< childScore(newBoard, isMaximizing, ai, human, 0),
                               childScore(newBoard, isMaximizing, ai, human, 1),
                               childScore(newBoard, isMaximizing, ai, human, 2),
                               childScore(newBoard, isMaximizing, ai, human, 3),
                               childScore(newBoard, isMaximizing, ai, human, 4),
                               childScore(newBoard, isMaximizing, ai, human, 5),
                               childScore(newBoard, isMaximizing, ai, human, 6),
                               childScore(newBoard, isMaximizing, ai, human, 7),
                               childScore(newBoard, isMaximizing, ai, human, 8) >>} } : TRUE

childScore(newBoard, isMaximizing, ai, human, i) ==
  IF newBoard[i] # Null THEN Skipped
  ELSE CHOOSE score \in
         { minimax(placed, ~isMaximizing, ai, human).score :
             placed \in {[newBoard EXCEPT ![i] = IF isMaximizing THEN ai ELSE human]} } : TRUE

getBestMoveHard(b, ai, human, randIdx) ==
  IF \A i \in Cells : b[i] = Null THEN getRandomMove(b, randIdx)
  ELSE minimax(b, TRUE, ai, human).move

----------------------------------------------------------------------------
(* The arrays of one call of the move engine.  The operators above give the   *)
(* value a call returns; the ones below follow the same code for what it      *)
(* writes.  `board` is the array the caller passed, `copy` the array made by  *)
(* the latest board.slice(); ref names the array a statement writes to.       *)

Arrays(b) == [board |-> b, copy |-> b]

\* variant: no copy is made and the look-ahead writes to the caller's array
sliceSameArray(h) == [ref |-> "board", arrays |-> h]

\* board.slice(): a new array holding the cells of the caller's array
slice(h) == [ref |-> "copy", arrays |-> [h EXCEPT !.copy = h.board]]

\* boardCopy[i] = mark / newBoard[i] = mark
Place(h, ref, i, mark) == [h EXCEPT ![ref][i] = mark]

\* newBoard[i] = null
Undo(h, ref, i) == [h EXCEPT ![ref][i] = Null]

\* one look-ahead loop of getBestMoveEasy from cell i on: the arrays when the
\* loop returns a cell (found) or falls through
RECURSIVE lookAheadArrays(_, _, _)
lookAheadArrays(h, mark, i) ==
  IF i > 8 THEN [arrays |-> h, found |-> FALSE]
  ELSE IF h.board[i] # Null THEN lookAheadArrays(h, mark, i + 1)
  ELSE LET s == slice(h)
           placed == Place(s.arrays, s.ref, i, mark)
       IN IF calculateWinner(placed[s.ref]).winner = mark
          THEN [arrays |-> placed, found |-> TRUE]
          ELSE lookAheadArrays(placed, mark, i + 1)

\* the center test and getRandomMove write to no array
getBestMoveEasyArrays(b, ai, human) ==
  LET win == lookAheadArrays(Arrays(b), ai, 0) IN
  IF win.found THEN win.arrays
  ELSE lookAheadArrays(win.arrays, human, 0).arrays

\* minimax(newBoard, isMaximizing) with newBoard the array ref: place, recurse, undo
RECURSIVE minimaxArrays(_, _, _, _, _), minimaxLoopArrays(_, _, _, _, _, _)
minimaxArrays(h, ref, isMaximizing, ai, human) ==
  LET winnerInfo == calculateWinner(h[ref]) IN
  IF winnerInfo.winner = ai \/ winnerInfo.winner = human \/ isBoardFull(h[ref])
  THEN h
  ELSE minimaxLoopArrays(h, ref, isMaximizing, ai, human, 0)

minimaxLoopArrays(h, ref, isMaximizing, ai, human, i) ==
  IF i > 8 THEN h
  ELSE IF h[ref][i] # Null
       THEN minimaxLoopArrays(h, ref, isMaximizing, ai, human, i + 1)
       ELSE minimaxLoopArrays(
              Undo(minimaxArrays(Place(h, ref, i, IF isMaximizing THEN ai ELSE human),
                                 ref, ~isMaximizing, ai, human),
                   ref, i),
              ref, isMaximizing, ai, human, i + 1)

\* on the empty board getRandomMove builds its own arrays with map and filter;
\* otherwise minimax(board.slice(), true)
getBestMoveHardArrays(b, ai, human) ==
  IF \A i \in Cells : b[i] = Null THEN Arrays(b)
  ELSE LET s == slice(Arrays(b)) IN minimaxArrays(s.arrays, s.ref, TRUE, ai, human)

----------------------------------------------------------------------------
(* Effect "Check game end" (useEffect on [board]) *)

\* variant: the two branches of the tally update swapped
CheckGameEndSwapped(b, w, t, s) ==
  LET winInfo == calculateWinner(b) IN
  IF winInfo # NoWin
  THEN [winningInfo |-> winInfo, isTie |-> t,
        scores |-> IF winInfo.winner = PLAYER_X
                   THEN [s EXCEPT !.O = @ + 1]
                   ELSE [s EXCEPT !.X = @ + 1]]
  ELSE IF isBoardFull(b)
       THEN [winningInfo |-> w, isTie |-> TRUE, scores |-> [s EXCEPT !.ties = @ + 1]]
       ELSE [winningInfo |-> w, isTie |-> t, scores |-> s]

\* the state the effect leaves, as a record of the three pieces of state it sets
CheckGameEnd(b, w, t, s) ==
  LET winInfo == calculateWinner(b) IN
  IF winInfo # NoWin
  THEN [winningInfo |-> winInfo, isTie |-> t,
        scores |-> IF winInfo.winner = PLAYER_X
                   THEN [s EXCEPT !.X = @ + 1]
                   ELSE [s EXCEPT !.O = @ + 1]]
  ELSE IF isBoardFull(b)
       THEN [winningInfo |-> w, isTie |-> TRUE, scores |-> [s EXCEPT !.ties = @ + 1]]
       ELSE [winningInfo |-> w, isTie |-> t, scores |-> s]

\* no timeout pending; a pending one holds what its callback closes over: the
\* board and difficulty it reads and the state handleCellClick reads
NoTimer == [pending |-> FALSE, board |-> EMPTY_BOARD, xIsNext |-> TRUE,
            winningInfo |-> NoWin, isTie |-> FALSE, difficulty |-> EASY]
NoRet == [fn |-> "none", winInfo |-> NoWin, full |-> FALSE, move |-> UndefinedMove,
          randIdx |-> 0, given |-> EMPTY_BOARD, work |-> EMPTY_BOARD]
ZeroScores == [X |-> 0, O |-> 0, ties |-> 0]

----------------------------------------------------------------------------
(* SpecEvaluate: the outcome evaluator and the game-end effect applied to one *)
(* board drawn from all 3^9 boards.  The session state is the one a move      *)
(* leaves before the effect runs: no winner, no tie.                          *)

InitCall ==
  /\ board \in Boards
  /\ aiMark \in Marks
  /\ gameMode = PVC /\ xIsNext = TRUE /\ winningInfo = NoWin /\ isTie = FALSE
  /\ scores = ZeroScores /\ difficulty \in DIFFICULTY_LEVELS
  /\ timer = NoTimer
  /\ ret = NoRet /\ pc = "call"

InitEvaluate == InitCall /\ aiMark = PLAYER_O /\ difficulty = EASY

CallCalculateWinner ==
  /\ pc = "call"
  /\ ret' = [NoRet EXCEPT !.fn = "calculateWinner", !.winInfo = calculateWinner(board)]
  /\ pc' = "returned"
  /\ UNCHANGED <<gameMode, board, xIsNext, winningInfo, isTie, scores, difficulty,
                 timer, aiMark>>

CallIsBoardFull ==
  /\ pc = "call"
  /\ ret' = [NoRet EXCEPT !.fn = "isBoardFull", !.full = isBoardFull(board)]
  /\ pc' = "returned"
  /\ UNCHANGED <<gameMode, board, xIsNext, winningInfo, isTie, scores, difficulty,
                 timer, aiMark>>

RunCheckGameEnd ==
  /\ pc = "call"
  /\ LET e == CheckGameEnd(board, winningInfo, isTie, scores) IN
       /\ winningInfo' = e.winningInfo
       /\ isTie' = e.isTie
       /\ scores' = e.scores
  /\ ret' = [NoRet EXCEPT !.fn = "checkGameEnd"]
  /\ pc' = "returned"
  /\ UNCHANGED <<gameMode, board, xIsNext, difficulty, timer, aiMark>>

NextEvaluate == CallCalculateWinner \/ CallIsBoardFull \/ RunCheckGameEnd

SpecEvaluate == InitEvaluate /\ [][NextEvaluate]_vars

----------------------------------------------------------------------------
(* handleCellClick, as a function of the state its closure holds *)

\* variant: the early return tests the recorded outcome only, not the cell
ClickIgnoredOutcomeOnly(b, w, t, idx) == w # NoWin \/ t

\* variant: the early return tests the cell only, not the recorded outcome
ClickIgnoredCellOnly(b, w, t, idx) == b[idx] # Null

\* the early return: if (board[idx] || winningInfo || isTie) return
ClickIgnored(b, w, t, idx) == b[idx] # Null \/ w # NoWin \/ t

\* variant: the mark placed does not depend on the turn
PlaceMarkAlwaysX(b, idx, xNext) == [b EXCEPT ![idx] = PLAYER_X]

\* newBoard = board.slice(); newBoard[idx] = xIsNext ? PLAYER_X : PLAYER_O
PlaceMark(b, idx, xNext) == [b EXCEPT ![idx] = IF xNext THEN PLAYER_X ELSE PLAYER_O]

----------------------------------------------------------------------------
(* SpecSelectMove: one call of the move engine, for either mark as aiMark and *)
(* either difficulty, on a board with the mark counts that alternate         *)
(* placement starting with X gives (as many X as O, or one more).  The       *)
(* minimax search is run on boards with at most MaxEmptyHard empty cells.    *)
(* The value returned then goes through the caller's test and, if it is a    *)
(* move, to handleCellClick on the engine's turn.                            *)

MaxEmptyHard == 6

\* the dispatch of the computer-move callback: Easy or Hard by difficulty
selectMove(b, ai, human, diff, randIdx) ==
  IF diff = EASY THEN getBestMoveEasy(b, ai, human, randIdx)
  ELSE getBestMoveHard(b, ai, human, randIdx)

CallEasy ==
  /\ pc = "call"
  /\ difficulty = EASY
  /\ \E randIdx \in RandIdxs(board) :
       ret' = [NoRet EXCEPT !.fn = "getBestMoveEasy", !.randIdx = randIdx,
                 !.move = selectMove(board, aiMark, Other(aiMark), difficulty, randIdx)]
  /\ pc' = "returned"
  /\ UNCHANGED <<gameMode, board, xIsNext, winningInfo, isTie, scores, difficulty,
                 timer, aiMark>>

\* the random draw of the Hard strategy is made on the empty board only
CallHard ==
  /\ pc = "call"
  /\ difficulty = HARD
  /\ board = EMPTY_BOARD \/ Cardinality(Empties(board)) <= MaxEmptyHard
  /\ \E randIdx \in (IF board = EMPTY_BOARD THEN RandIdxs(board) ELSE {0}) :
       ret' = [NoRet EXCEPT !.fn = "getBestMoveHard", !.randIdx = randIdx,
                 !.move = selectMove(board, aiMark, Other(aiMark), difficulty, randIdx)]
  /\ pc' = "returned"
  /\ UNCHANGED <<gameMode, board, xIsNext, winningInfo, isTie, scores, difficulty,
                 timer, aiMark>>

\* the test the caller makes of the value returned
NoMove(move) == move = UndefinedMove \/ move = NullMove

\* if (move !== undefined && move !== null) handleCellClick(move), on the
\* engine's turn (the mark placed is aiMark), then the game-end effect
ApplyReturnedMove ==
  /\ pc = "returned"
  /\ IF NoMove(ret.move) \/ ClickIgnored(board, winningInfo, isTie, ret.move)
     THEN UNCHANGED <<board, xIsNext, winningInfo, isTie, scores>>
     ELSE LET newBoard == PlaceMark(board, ret.move, aiMark = PLAYER_X)
              e == CheckGameEnd(newBoard, NoWin, FALSE, scores)
          IN /\ board' = newBoard
             /\ xIsNext' = ~xIsNext
             /\ winningInfo' = e.winningInfo
             /\ isTie' = e.isTie
             /\ scores' = e.scores
  /\ pc' = "applied"
  /\ UNCHANGED <<gameMode, difficulty, timer, aiMark, ret>>

NextSelectMove == CallEasy \/ CallHard \/ ApplyReturnedMove

InitSelectMove ==
  /\ InitCall
  /\ Count(board, PLAYER_X) - Count(board, PLAYER_O) \in {0, 1}

SpecSelectMove == InitSelectMove /\ [][NextSelectMove]_vars

----------------------------------------------------------------------------
(* SpecFrame: what one call of the move engine writes.  The call is given the *)
(* array `board`; the action leaves in `board` the cells of that array when   *)
(* the call returns, and records the cells it was given and the cells of the  *)
(* copy the call worked on.  That the array comes back as it was given is     *)
(* what lets the other specifications take the engine as a function of the    *)
(* board.                                                                     *)

\* the writes of the Hard search are followed on boards with at most
\* MaxEmptyFrame empty cells
MaxEmptyFrame == 5

FrameEasy ==
  /\ pc = "call"
  /\ difficulty = EASY
  /\ LET h == getBestMoveEasyArrays(board, aiMark, Other(aiMark)) IN
       /\ board' = h.board
       /\ ret' = [NoRet EXCEPT !.fn = "getBestMoveEasy", !.given = board, !.work = h.copy]
  /\ pc' = "returned"
  /\ UNCHANGED <<gameMode, xIsNext, winningInfo, isTie, scores, difficulty, timer, aiMark>>

FrameHard ==
  /\ pc = "call"
  /\ difficulty = HARD
  /\ board = EMPTY_BOARD \/ Cardinality(Empties(board)) <= MaxEmptyFrame
  /\ LET h == getBestMoveHardArrays(board, aiMark, Other(aiMark)) IN
       /\ board' = h.board
       /\ ret' = [NoRet EXCEPT !.fn = "getBestMoveHard", !.given = board, !.work = h.copy]
  /\ pc' = "returned"
  /\ UNCHANGED <<gameMode, xIsNext, winningInfo, isTie, scores, difficulty, timer, aiMark>>

NextFrame == FrameEasy \/ FrameHard

SpecFrame == InitSelectMove /\ [][NextFrame]_vars

----------------------------------------------------------------------------
(* Simulated games from the empty board, X first.  A player selects a cell,  *)
(* the cell is applied as handleCellClick applies it, and the game-end       *)
(* effect records the outcome; play stops once a winner or a tie is recorded.*)
(* SpecHardVsAny: X plays any empty cell, O plays getBestMoveHard.           *)
(* SpecHardVsHard: both marks play getBestMoveHard with themselves as aiMark.*)

InitGame ==
  /\ board = EMPTY_BOARD /\ xIsNext = TRUE
  /\ winningInfo = NoWin /\ isTie = FALSE /\ scores = ZeroScores
  /\ gameMode = PVC /\ difficulty = HARD
  /\ timer = NoTimer
  /\ aiMark = PLAYER_O /\ ret = NoRet /\ pc = "select"

ToMove == IF xIsNext THEN PLAYER_X ELSE PLAYER_O

\* the opponent picks any empty cell
AnySelects(mark) ==
  /\ pc = "select" /\ ToMove = mark
  /\ winningInfo = NoWin /\ ~isTie
  /\ \E idx \in Empties(board) :
       ret' = [NoRet EXCEPT !.fn = "any", !.move = idx]
  /\ pc' = "apply"
  /\ UNCHANGED <<gameMode, board, xIsNext, winningInfo, isTie, scores, difficulty,
                 timer, aiMark>>

\* the player of `mark` calls getBestMoveHard(board, mark, other mark)
HardSelects(mark) ==
  /\ pc = "select" /\ ToMove = mark
  /\ winningInfo = NoWin /\ ~isTie
  /\ \E randIdx \in (IF board = EMPTY_BOARD THEN RandIdxs(board) ELSE {0}) :
       ret' = [NoRet EXCEPT !.fn = "getBestMoveHard", !.randIdx = randIdx,
                 !.move = getBestMoveHard(board, mark, Other(mark), randIdx)]
  /\ aiMark' = mark
  /\ pc' = "apply"
  /\ UNCHANGED <<gameMode, board, xIsNext, winningInfo, isTie, scores, difficulty,
                 timer>>

\* if (move !== undefined && move !== null) handleCellClick(move), then the
\* game-end effect on the new board
ApplyMove ==
  /\ pc = "apply"
  /\ ret.move # UndefinedMove /\ ret.move # NullMove
  /\ ~ClickIgnored(board, winningInfo, isTie, ret.move)
  /\ LET newBoard == PlaceMark(board, ret.move, xIsNext)
         e == CheckGameEnd(newBoard, NoWin, FALSE, scores)
     IN /\ board' = newBoard
        /\ xIsNext' = ~xIsNext
        /\ winningInfo' = e.winningInfo
        /\ isTie' = e.isTie
        /\ scores' = e.scores
        /\ pc' = IF e.winningInfo # NoWin \/ e.isTie THEN "over" ELSE "select"
  /\ UNCHANGED <<gameMode, difficulty, timer, aiMark, ret>>

NextHardVsAny == AnySelects(PLAYER_X) \/ HardSelects(PLAYER_O) \/ ApplyMove

SpecHardVsAny == InitGame /\ [][NextHardVsAny]_vars

NextHardVsHard == HardSelects(PLAYER_X) \/ HardSelects(PLAYER_O) \/ ApplyMove

SpecHardVsHard == InitGame /\ [][NextHardVsHard]_vars

----------------------------------------------------------------------------
(* The App component: Spec.  Each action is one handler (a click, the reset  *)
(* button, the mode or difficulty selector, the timeout callback) together    *)
(* with the render it causes and the effects that run after that render: the  *)
(* game-end effect when the board changed, then the computer-move effect when *)
(* one of its dependencies changed.                                           *)

\* rounds finished so far are counted by the tallies; a round is begun (a mark is
\* placed on the empty board) only while fewer than MaxRounds are counted in
\* Player-vs-Computer mode, fewer than MaxRoundsPvP in Player-vs-Player mode
MaxRounds == 1
MaxRoundsPvP == 2

RoundsFinished == scores.X + scores.O + scores.ties

RoundLimit == IF gameMode = PVP THEN MaxRoundsPvP ELSE MaxRounds

\* variant: the effect tests xIsNext where the source tests !xIsNext
ComputerMoveEffectOnXTurn(m, b, x, w, t, d) ==
  IF m = PVC /\ w = NoWin /\ ~t /\ x
  THEN [pending |-> TRUE, board |-> b, xIsNext |-> x, winningInfo |-> w,
        isTie |-> t, difficulty |-> d]
  ELSE NoTimer

\* Effect "Computer move": the timeout set (or not) for the rendered state
ComputerMoveEffect(m, b, x, w, t, d) ==
  IF m = PVC /\ w = NoWin /\ ~t /\ ~x
  THEN [pending |-> TRUE, board |-> b, xIsNext |-> x, winningInfo |-> w,
        isTie |-> t, difficulty |-> d]
  ELSE NoTimer

\* variant: the cleanup of the computer-move effect does not clear the timeout,
\* so a timeout set for an earlier render stays pending
RenderNoCleanup(m, b, x, w, t, d, s, tm) ==
  LET e == IF b # board THEN CheckGameEnd(b, w, t, s)
           ELSE [winningInfo |-> w, isTie |-> t, scores |-> s]
      eff == ComputerMoveEffect(m, b, x, e.winningInfo, e.isTie, d)
  IN /\ gameMode' = m
     /\ board' = b
     /\ xIsNext' = x
     /\ winningInfo' = e.winningInfo
     /\ isTie' = e.isTie
     /\ scores' = e.scores
     /\ difficulty' = d
     /\ timer' = IF eff.pending THEN eff ELSE tm

\* The render after a handler set the state to (m, b, x, w, t, d, s), and its
\* effects.  tm is the timeout still pending when the handler returns; the
\* cleanup of the computer-move effect clears it when a dependency changed.
Render(m, b, x, w, t, d, s, tm) ==
  LET e == IF b # board THEN CheckGameEnd(b, w, t, s)
           ELSE [winningInfo |-> w, isTie |-> t, scores |-> s]
      depsChanged == <<m, b, x, e.winningInfo, e.isTie, d>>
                       # <<gameMode, board, xIsNext, winningInfo, isTie, difficulty>>
  IN /\ gameMode' = m
     /\ board' = b
     /\ xIsNext' = x
     /\ winningInfo' = e.winningInfo
     /\ isTie' = e.isTie
     /\ scores' = e.scores
     /\ difficulty' = d
     /\ timer' = IF depsChanged
                 THEN ComputerMoveEffect(m, b, x, e.winningInfo, e.isTie, d)
                 ELSE tm

Init ==
  /\ gameMode = PVC /\ board = EMPTY_BOARD /\ xIsNext = TRUE
  /\ winningInfo = NoWin /\ isTie = FALSE /\ scores = ZeroScores
  /\ difficulty = EASY /\ timer = NoTimer
  /\ aiMark = PLAYER_O /\ ret = NoRet /\ pc = "session"

\* a click on cell idx of the rendered board (the Square's onClick).  A call
\* that takes the early return sets no state: no render, no effect, the pending
\* timeout stays.  ret records the last handler call: an ignored click, a run
\* of the timeout callback, or nothing (any other handler).
HandleCellClick(idx) ==
  /\ pc = "session"
  /\ IF ClickIgnored(board, winningInfo, isTie, idx)
     THEN /\ ret' = [NoRet EXCEPT !.fn = "handleCellClick"]
          /\ UNCHANGED <<gameMode, board, xIsNext, winningInfo, isTie, scores,
                         difficulty, timer>>
     ELSE /\ board = EMPTY_BOARD => RoundsFinished < RoundLimit
          /\ Render(gameMode, PlaceMark(board, idx, xIsNext), ~xIsNext, NoWin, FALSE,
                    difficulty, scores, timer)
          /\ ret' = NoRet
  /\ UNCHANGED <<aiMark, pc>>

\* variant: the reset leaves the recorded outcome (no setWinningInfo(null), no
\* setTie(false))
HandleResetKeepsOutcome ==
  /\ pc = "session"
  /\ Render(gameMode, EMPTY_BOARD, TRUE, winningInfo, isTie, difficulty, scores, timer)
  /\ ret' = NoRet
  /\ UNCHANGED <<aiMark, pc>>

HandleReset ==
  /\ pc = "session"
  /\ Render(gameMode, EMPTY_BOARD, TRUE, NoWin, FALSE, difficulty, scores, timer)
  /\ ret' = NoRet
  /\ UNCHANGED <<aiMark, pc>>

HandleModeChange(mode) ==
  /\ pc = "session"
  /\ Render(mode, EMPTY_BOARD, TRUE, NoWin, FALSE,
            IF mode = PVP THEN EASY ELSE difficulty, ZeroScores, timer)
  /\ ret' = NoRet
  /\ UNCHANGED <<aiMark, pc>>

\* the difficulty selector, rendered in Player-vs-Computer mode only
SetDifficulty(d) ==
  /\ pc = "session"
  /\ gameMode = PVC
  /\ Render(gameMode, board, xIsNext, winningInfo, isTie, d, scores, timer)
  /\ ret' = NoRet
  /\ UNCHANGED <<aiMark, pc>>

\* the timeout callback: the engine is called on the board of the closure and
\* the move goes to the handleCellClick of the closure
ComputerMove ==
  /\ pc = "session"
  /\ timer.pending
  /\ ret' = [NoRet EXCEPT !.fn = "computerMove"]
  /\ \E randIdx \in (IF timer.difficulty = EASY \/ timer.board = EMPTY_BOARD
                     THEN RandIdxs(timer.board) ELSE {0}) :
       \E move \in {selectMove(timer.board, PLAYER_O, PLAYER_X, timer.difficulty, randIdx)} :
          /\ IF move = UndefinedMove \/ move = NullMove
                \/ ClickIgnored(timer.board, timer.winningInfo, timer.isTie, move)
             THEN /\ timer' = NoTimer
                  /\ UNCHANGED <<gameMode, board, xIsNext, winningInfo, isTie, scores,
                                 difficulty>>
             ELSE Render(gameMode, PlaceMark(timer.board, move, timer.xIsNext),
                         ~timer.xIsNext, NoWin, FALSE, difficulty, scores, NoTimer)
  /\ UNCHANGED <<aiMark, pc>>

Next ==
  \/ \E idx \in Cells : HandleCellClick(idx)
  \/ HandleReset
  \/ \E mode \in GAME_MODES : HandleModeChange(mode)
  \/ \E d \in DIFFICULTY_LEVELS : SetDifficulty(d)
  \/ ComputerMove

Spec == Init /\ [][Next]_vars

\* SpecFair: the session with the timer honoured: a timeout that stays pending
\* eventually runs its callback (setTimeout(..., 450) fires unless cleared).
\* This is weak fairness of the callback, WF_vars(ComputerMove), stated with the
\* condition under which the callback can run written out: ComputerMove has a
\* step, and one that changes the timer, exactly when a timeout is pending.
TimerPending == pc = "session" /\ timer.pending

CallbackFairness == []<>(~TimerPending) \/ []<><<ComputerMove>>_vars

SpecFair == Init /\ [][Next]_vars /\ CallbackFairness

----------------------------------------------------------------------------
(* Vocabulary of the properties, stated on the board alone *)

\* the fixed list of lines in scan order: rows, columns, main then anti diagonal
WinLines == << <<0, 1, 2>>, <<3, 4, 5>>, <<6, 7, 8>>,
               <<0, 3, 6>>, <<1, 4, 7>>, <<2, 5, 8>>,
               <<0, 4, 8>>, <<2, 4, 6>> >>

LineCells(k) == {WinLines[k][1], WinLines[k][2], WinLines[k][3]}

\* line k holds three identical non-empty marks
HasLine(b, k) == \E m \in Marks : \A c \in LineCells(k) : b[c] = m

HasLineOf(b, m) == \E k \in 1..8 : \A c \in LineCells(k) : b[c] = m

NoCompleteLine(b) == \A k \in 1..8 : ~HasLine(b, k)

\* placing mark m on the empty cell i completes a line through i
Completes(b, i, m) ==
  /\ b[i] = Null
  /\ \E k \in 1..8 : i \in LineCells(k) /\ \A c \in LineCells(k) \ {i} : b[c] = m

SetMin(S) == CHOOSE x \in S : \A y \in S : x <= y

\* the board [X,X,_, O,O,_, _,_,_]
ExampleBoard ==
  [i \in Cells |-> IF i \in {0, 1} THEN PLAYER_X
                   ELSE IF i \in {3, 4} THEN PLAYER_O ELSE Null]

Returned(fn) == pc = "returned" /\ ret.fn = fn

----------------------------------------------------------------------------
(* Properties of the outcome evaluator (SpecEvaluate) *)

\* C4: on every board, if line k is complete and no line scanned before it is,
\* calculateWinner returns a win with the mark on line k and exactly line k.
C4_FirstCompleteLine ==
  Returned("calculateWinner") =>
    \A k \in 1..8 :
      (HasLine(board, k) /\ \A j \in 1..(k - 1) : ~HasLine(board, j)) =>
        ret.winInfo = [winner |-> board[WinLines[k][1]], line |-> WinLines[k]]

\* C4 witness: two lines are complete (the top row and the left column) and
\* the top row, scanned first, is the one returned.
C4_Witness ==
  /\ Returned("calculateWinner")
  /\ HasLine(board, 1) /\ HasLine(board, 4)
  /\ ret.winInfo = [winner |-> board[0], line |-> <<0, 1, 2>>]

\* C5: on every board with no empty cell and no complete line, calculateWinner
\* returns no winner, isBoardFull is true, and the game-end effect sets the
\* tie flag and no winner.
C5_FullBoardIsTie ==
  (Empties(board) = {} /\ NoCompleteLine(board)) =>
    /\ Returned("calculateWinner") => ret.winInfo = NoWin
    /\ Returned("isBoardFull") => ret.full = TRUE
    /\ Returned("checkGameEnd") => (isTie = TRUE /\ winningInfo = NoWin)

\* C5 witness: the effect has run on a full board without a line and set the tie flag.
C5_Witness ==
  /\ Returned("checkGameEnd")
  /\ Empties(board) = {} /\ NoCompleteLine(board)
  /\ isTie = TRUE /\ winningInfo = NoWin /\ scores.ties = 1

\* C6: on every board with an empty cell and no complete line, calculateWinner
\* returns no winner, isBoardFull is false, and the game-end effect sets
\* neither a winner nor the tie flag.
C6_OpenBoardNoOutcome ==
  (Empties(board) # {} /\ NoCompleteLine(board)) =>
    /\ Returned("calculateWinner") => ret.winInfo = NoWin
    /\ Returned("isBoardFull") => ret.full = FALSE
    /\ Returned("checkGameEnd") =>
         (isTie = FALSE /\ winningInfo = NoWin /\ scores = ZeroScores)

\* C6 witness: the effect has run on a board with one empty cell and no line
\* and left the game open.
C6_Witness ==
  /\ Returned("checkGameEnd")
  /\ Cardinality(Empties(board)) = 1 /\ NoCompleteLine(board)
  /\ isTie = FALSE /\ winningInfo = NoWin

----------------------------------------------------------------------------
(* Properties of the move engine (SpecSelectMove) *)

\* C2 as stated: on [X,X,_, O,O,_, _,_,_] with aiMark O and humanMark X the
\* Hard strategy returns 5.
C2_HardExample ==
  (Returned("getBestMoveHard") /\ board = ExampleBoard /\ aiMark = PLAYER_O) =>
    ret.move = 5

\* C2 amended: on that board the Hard strategy returns 2.  Cells 2 and 5 both
\* have minimax value +1 (O at 2 blocks the top row and leaves O two threats)
\* and the search keeps the first of them.
C2_HardExampleReturns2 ==
  (Returned("getBestMoveHard") /\ board = ExampleBoard /\ aiMark = PLAYER_O) =>
    ret.move = 2

\* C2 witness: that call has returned 2.
C2_Witness ==
  /\ Returned("getBestMoveHard") /\ board = ExampleBoard /\ aiMark = PLAYER_O
  /\ ret.move = 2

\* C7: on every board with an empty cell and no complete line, under both
\* difficulties and every random draw, the returned index is in 0..8 and names
\* an empty cell of that board.
C7_MoveIsEmptyCell ==
  (pc = "returned" /\ Empties(board) # {} /\ NoCompleteLine(board)) =>
    (ret.move \in Cells /\ board[ret.move] = Null)

\* C7 witness: the Hard search (not the random opening) has returned an empty
\* cell on a board with marks of both players.
C7_Witness ==
  /\ Returned("getBestMoveHard")
  /\ Count(board, PLAYER_X) = 2 /\ Count(board, PLAYER_O) = 2
  /\ NoCompleteLine(board)
  /\ ret.move \in Cells /\ board[ret.move] = Null

\* the empty cells where placing aiMark completes a line
WinningCells(b, m) == {i \in Cells : Completes(b, i, m)}

----------------------------------------------------------------------------
(* Properties of Hard play (SpecHardVsAny, SpecHardVsHard) *)

\* C1: when X plays any empty cell on its turns and every O move is the cell
\* getBestMoveHard returns for aiMark O, no reachable board holds a complete
\* line of X, and every cell Hard selects is an empty cell.
C1_HardNeverLoses ==
  /\ ~HasLineOf(board, PLAYER_X)
  /\ winningInfo.winner # PLAYER_X
  /\ (pc = "apply" /\ ret.fn = "getBestMoveHard") =>
       (ret.move \in Cells /\ board[ret.move] = Null)

\* C1 witness: a game has been played to a full board on which X, free to play
\* anywhere, completed no line.
C1_Witness ==
  /\ pc = "over" /\ Empties(board) = {}
  /\ ~HasLineOf(board, PLAYER_X) /\ isTie = TRUE

\* C9: when both marks are played by getBestMoveHard from the empty board, for
\* every random opening, no reachable board has a complete line, every selected
\* cell is empty (so play continues to a full board), and a finished game is a
\* tie.
C9_HardVsHardTies ==
  /\ NoCompleteLine(board)
  /\ pc = "apply" => (ret.move \in Cells /\ board[ret.move] = Null)
  /\ pc = "over" => (Empties(board) = {} /\ isTie = TRUE /\ winningInfo = NoWin)

\* C9 witness: a Hard-vs-Hard game has ended on a full board without a line.
C9_Witness ==
  /\ pc = "over" /\ Empties(board) = {} /\ NoCompleteLine(board) /\ isTie = TRUE

----------------------------------------------------------------------------
(* Properties of the session (Spec) *)

\* C3: in Player-vs-Computer mode every O mark that appears on the board is
\* placed by the timeout callback, at the cell the move engine (Easy or Hard by
\* the selected difficulty, aiMark O) returns for the board as it was just
\* before the placement; no other event places an O mark.
C3_OnlyEngineMovesPlaceO ==
  [][ (gameMode = PVC /\ Count(board', PLAYER_O) > Count(board, PLAYER_O)) =>
        /\ timer.pending
        /\ \E randIdx \in RandIdxs(board) :
             board' = PlaceMark(board,
                                selectMove(board, PLAYER_O, PLAYER_X, difficulty, randIdx),
                                FALSE) ]_vars

GameOver == winningInfo # NoWin \/ isTie

\* C10: once a win or a tie is recorded, every step leaves the board unchanged
\* unless it is a reset or a mode change, which makes it all-empty; and no
\* computer move is pending while a win or a tie is recorded.
C10_TerminalUntilReset ==
  /\ [][ GameOver =>
           \/ board' = board
           \/ /\ board' = EMPTY_BOARD
              /\ HandleReset \/ \E mode \in GAME_MODES : HandleModeChange(mode) ]_vars
  /\ [](GameOver => ~timer.pending)

\* C10 witness: in Player-vs-Computer mode X has won with empty cells left and
\* O to move (the computer's turn), and no computer move is pending.
C10_Witness ==
  /\ pc = "session" /\ gameMode = PVC
  /\ winningInfo # NoWin /\ winningInfo.winner = PLAYER_X
  /\ Empties(board) # {} /\ ~xIsNext
  /\ ~timer.pending

\* C11: whenever a computer move is pending, the board its callback will pass
\* to the move engine is the session's current board, and the mode, turn,
\* outcome flags and difficulty the callback reads are the current ones: every
\* event that changes one of them has cancelled the earlier timeout.  A step of
\* the callback places one O on an empty cell of the board as it is when the
\* callback fires, and changes no other cell.
C11_TimerBoardIsCurrent ==
  /\ [](timer.pending =>
          /\ timer.board = board
          /\ timer.xIsNext = xIsNext
          /\ timer.winningInfo = winningInfo
          /\ timer.isTie = isTie
          /\ timer.difficulty = difficulty
          /\ gameMode = PVC)
  /\ [][ (pc = "session" /\ ret'.fn = "computerMove") =>
           /\ timer.pending /\ timer.board = board
           /\ \E i \in Empties(board) : board' = [board EXCEPT ![i] = PLAYER_O] ]_vars

\* C11 witness: the callback has fired on a board of three marks and the
\* current board holds its move, the second O; no timeout is left pending.
C11_Witness ==
  /\ pc = "session" /\ ret.fn = "computerMove"
  /\ Count(board, PLAYER_X) = 2 /\ Count(board, PLAYER_O) = 2
  /\ ~timer.pending

----------------------------------------------------------------------------
(* Further properties of the move engine (SpecSelectMove) *)

\* C12: on every board with no empty cell the value returned is not a cell,
\* under both difficulties: Easy returns null (from getRandomMove) and Hard
\* returns undefined (the move field of a minimax result that has none); the
\* caller treats both as "no move", and the step that follows the call places
\* no mark and leaves the turn as it was.
C12_FullBoardNoMove ==
  /\ []((pc = "returned" /\ Empties(board) = {}) =>
          /\ NoMove(ret.move)
          /\ ret.fn = "getBestMoveEasy" => ret.move = NullMove
          /\ ret.fn = "getBestMoveHard" => ret.move = UndefinedMove)
  /\ [][ (pc = "returned" /\ Empties(board) = {}) =>
           (board' = board /\ xIsNext' = xIsNext) ]_vars

\* C12 witness: Hard was called on a full board without a line, returned no
\* move, and the caller's step has been taken with the board still full.
C12_Witness ==
  /\ pc = "applied" /\ ret.fn = "getBestMoveHard" /\ NoMove(ret.move)
  /\ Empties(board) = {} /\ NoCompleteLine(board)

SetMax(S) == CHOOSE x \in S : \A y \in S : x >= y

\* The game value of board b for mark ai when `mover` is to place the next
\* mark: +1 if b holds a line of ai, -1 if it holds a line of the other mark, 0
\* if b is full without a line; otherwise the greatest value over the empty
\* cells when ai moves and the least when the other mark moves.
RECURSIVE MinimaxValue(_, _, _)
MinimaxValue(b, mover, ai) ==
  IF HasLineOf(b, ai) THEN 1
  ELSE IF HasLineOf(b, Other(ai)) THEN -1
  ELSE IF Empties(b) = {} THEN 0
  ELSE IF mover = ai
       THEN SetMax({MinimaxValue([b EXCEPT ![i] = mover], Other(mover), ai) : i \in Empties(b)})
       ELSE SetMin({MinimaxValue([b EXCEPT ![i] = mover], Other(mover), ai) : i \in Empties(b)})

\* the pairs <<empty cell, game value for ai of placing ai there>>
CellValues(b, ai) ==
  {<<i, MinimaxValue([b EXCEPT ![i] = ai], Other(ai), ai)>> : i \in Empties(b)}

\* the lowest-index cell among those of greatest value
FirstBestCell(pairs) ==
  SetMin({p[1] : p \in {q \in pairs : q[2] = SetMax({r[2] : r \in pairs})}})

\* C13: on every board that is not all-empty, has an empty cell and has no
\* complete line, Hard returns the lowest-index empty cell whose full-depth
\* minimax value is the greatest over the empty cells.
C13_HardIsFirstBest ==
  (Returned("getBestMoveHard") /\ board # EMPTY_BOARD
     /\ Empties(board) # {} /\ NoCompleteLine(board)) =>
    ret.move = FirstBestCell(CellValues(board, aiMark))

\* C13 witness: on the example board two cells (2 and 5) have the greatest
\* value, +1, for O, and Hard has returned the lower one.
C13_Witness ==
  /\ Returned("getBestMoveHard") /\ board = ExampleBoard /\ aiMark = PLAYER_O
  /\ {<<2, 1>>, <<5, 1>>} \subseteq CellValues(board, aiMark)
  /\ ret.move = 2

----------------------------------------------------------------------------
(* Property of the engine's writes (SpecFrame) *)

\* C16: when a call of the move engine returns, under either difficulty, every
\* cell of the array it was given holds the value it held before the call; and
\* the copy the Hard search placed and undid its marks on holds those values
\* too.
C16_BoardUnchangedByCall ==
  pc = "returned" =>
    /\ board = ret.given
    /\ ret.fn = "getBestMoveHard" => ret.work = ret.given

\* C16 witness: the Hard search has run on a board of four marks without a
\* line, and both the array given and the copy searched hold the four marks.
C16_Witness ==
  /\ Returned("getBestMoveHard")
  /\ Count(ret.given, PLAYER_X) = 2 /\ Count(ret.given, PLAYER_O) = 2
  /\ NoCompleteLine(ret.given)
  /\ board = ret.given /\ ret.work = ret.given

----------------------------------------------------------------------------
(* Further properties of the session (Spec) *)

\* a round ends in this step: no outcome is recorded before it, one is after it
RoundEnds == ~GameOver /\ GameOver'

\* C15: a step in which a round ends adds exactly 1 to exactly one tally: to
\* the tally of the mark recorded as winner, which has a line on the board, or
\* to the ties tally when the board is full with no complete line; a full board
\* with a line is recorded as a win and not as a tie.  Every other step leaves
\* the tallies as they are, except a mode change, which sets them to 0; a reset
\* leaves them unchanged.
C15_TalliesCountRounds ==
  [][ /\ RoundEnds =>
           /\ ~NoCompleteLine(board') => (winningInfo' # NoWin /\ ~isTie')
           /\ winningInfo' # NoWin =>
                /\ HasLineOf(board', winningInfo'.winner)
                /\ scores' = [scores EXCEPT ![winningInfo'.winner] = @ + 1]
           /\ winningInfo' = NoWin =>
                /\ isTie' /\ Empties(board') = {} /\ NoCompleteLine(board')
                /\ scores' = [scores EXCEPT !.ties = @ + 1]
      /\ ~RoundEnds =>
           \/ scores' = scores
           \/ /\ scores' = ZeroScores
              /\ \E mode \in GAME_MODES : HandleModeChange(mode)
      /\ HandleReset => scores' = scores ]_vars

\* C15 witness: in a second round X has completed a line with the ninth mark;
\* the round is counted for X and not as a tie, after a first round that was
\* counted too, and the tallies hold two rounds.
C15_Witness ==
  /\ pc = "session"
  /\ Empties(board) = {} /\ HasLineOf(board, PLAYER_X)
  /\ winningInfo # NoWin /\ winningInfo.winner = PLAYER_X /\ ~isTie
  /\ scores.X >= 1 /\ scores.ties = 0 /\ RoundsFinished = 2

\* C17: in every state of the session the board holds as many X as O or one X
\* more, and it is X's turn exactly when the two counts are equal.
C17_MarksAlternate ==
  pc = "session" =>
    /\ Count(board, PLAYER_X) - Count(board, PLAYER_O) \in {0, 1}
    /\ xIsNext <=> (Count(board, PLAYER_X) = Count(board, PLAYER_O))

\* C17 witness: in Player-vs-Computer mode, after clicks and computer moves,
\* the board holds three X and two O, it is O's turn and the computer's move
\* is pending.
C17_Witness ==
  /\ pc = "session" /\ gameMode = PVC
  /\ Count(board, PLAYER_X) = 3 /\ Count(board, PLAYER_O) = 2
  /\ ~xIsNext /\ timer.pending /\ ~GameOver

\* C18: in every state of the session the winner record and the tie flag are
\* not both set; a recorded winner is what calculateWinner reports for the
\* board, a mark with a complete line on it; and the tie flag is set only on a
\* full board with no complete line.
C18_OutcomeAgreesWithBoard ==
  pc = "session" =>
    /\ ~(winningInfo # NoWin /\ isTie)
    /\ winningInfo # NoWin =>
         /\ calculateWinner(board) = winningInfo
         /\ winningInfo.winner \in Marks
         /\ HasLineOf(board, winningInfo.winner)
    /\ isTie => (Empties(board) = {} /\ NoCompleteLine(board))

\* C18 witness: O is recorded as winner on a board with empty cells and a
\* complete line of O, and the tie flag is not set.
C18_Witness ==
  /\ pc = "session"
  /\ winningInfo # NoWin /\ winningInfo.winner = PLAYER_O /\ ~isTie
  /\ HasLineOf(board, PLAYER_O) /\ Empties(board) # {}
  /\ scores.O = 1

\* C19: a click on an occupied cell leaves the board, the turn, the winner
\* record, the tie flag and the tallies as they are; and in every step every
\* filled cell keeps its mark, unless the step is a reset or a mode change,
\* which empties the whole board.
C19_OccupiedClickIsNoOp ==
  /\ [][ \A idx \in Cells :
           (board[idx] # Null /\ HandleCellClick(idx)) =>
             UNCHANGED <<board, xIsNext, winningInfo, isTie, scores>> ]_vars
  /\ [][ \/ \A i \in Cells : board[i] # Null => board'[i] = board[i]
         \/ /\ board' = EMPTY_BOARD
            /\ HandleReset \/ \E mode \in GAME_MODES : HandleModeChange(mode) ]_vars

\* C19 witness: during a round (no outcome recorded) a click has taken the
\* early return, so it was on the one occupied cell; the X is still there and
\* the computer's move is still pending.
C19_Witness ==
  /\ pc = "session" /\ ret.fn = "handleCellClick"
  /\ ~GameOver /\ gameMode = PVC
  /\ Count(board, PLAYER_X) = 1 /\ Count(board, PLAYER_O) = 0
  /\ ~xIsNext /\ timer.pending

----------------------------------------------------------------------------
(* Property of the session with the timer honoured (SpecFair) *)

OTurnInPvC == pc = "session" /\ gameMode = PVC /\ ~xIsNext /\ ~GameOver

\* C20: in Player-vs-Computer mode, whenever it is O's turn and no outcome is
\* recorded, the computer's move is pending, and O's turn comes to an end: an
\* O mark is placed (the only way the turn passes to X with the board kept,
\* since the marks alternate) or a reset or a mode change empties the board.
C20_ComputerEventuallyMoves ==
  /\ [](OTurnInPvC => timer.pending)
  /\ OTurnInPvC ~> xIsNext

\* C20 witness: on Hard, the callback has fired on a board with one X and
\* placed the first O; it is X's turn again.
C20_Witness ==
  /\ pc = "session" /\ gameMode = PVC /\ difficulty = HARD
  /\ ret.fn = "computerMove"
  /\ Count(board, PLAYER_X) = 1 /\ Count(board, PLAYER_O) = 1
  /\ xIsNext

====
